---- MODULE Spec2Model ----
(***************************************************************************)
(* Model of the two lambdas of the X stock-market sentiment pipeline:      *)
(*   src/lambda/scraping_lambda.py    the harvest (scraping) lambda         *)
(*   src/lambda/enrichment_lambda.py  the enrichment lambda                 *)
(*                                                                         *)
(* Strings are sequences of tokens.  A token is either one of the          *)
(* characters the code treats specially ("/", ".", "=", "$", "#", " ",     *)
(* "_", "+", a newline "NL", a pictograph "EMOJI", a percent escape such   *)
(* as "%3D") or a word that holds none of them ("tweets", "AAPL", ...).    *)
(* Every string operation of the code (split, strip, replace, endswith,    *)
(* unquote_plus, slicing) is computed on those sequences.                  *)
(***************************************************************************)
EXTENDS Integers, Sequences, FiniteSets, TLC

VARIABLES
    src,        \* bucket "reddit-crawler-bucket": key -> body, DOMAIN = the keys that exist
    dst,        \* bucket "x-enriched-bucket": key -> body
    today,      \* the current UTC day, as the harvest's strftime prints it
    hpc,        \* harvest invocation: "idle", "loop", "reloop", "done", "crashed"
    hashtags,   \* harvest: the discovered tags (run_scraper's hashtags)
    hidx,       \* harvest: index of the tag the loop is at
    hcycle,     \* harvest: number of invocations started so far
    hsaved,     \* harvest history: indexes of the tags saved by this invocation
    hraised,    \* harvest history: index of the tag whose iteration raised, 0 if none
    hdropped,   \* harvest history: Posts the last merge left out as duplicates
    hfound,     \* harvest history: what the search returned, per tag index, when recorded
    everRaw,    \* harvest history: raw key -> the Posts ever saved under it, when recorded
    epc,        \* enrichment invocation: "idle", "record", "enrich", "put", "delete",
                \*   "returned", "crashed"
    records,    \* enrichment: event["Records"]
    ridx,       \* enrichment: index of the record the loop is at
    tweets,     \* enrichment: the loaded list, enriched in place
    ti,         \* enrichment: index of the Post the inner loop is at
    processed,  \* enrichment: the processed list
    failed,     \* enrichment: the failed list
    calls,      \* enrichment history: the invoke_endpoint calls, [rec, post, text]
    hist,       \* enrichment history: per record, the steps taken and how each ended
    parked,     \* the locals of a second enrichment invocation while it is not running
    pick        \* a call of _pick_best_label on its own: <<>> or [arg, out]

hvars == <<today, hpc, hashtags, hidx, hcycle, hsaved, hraised, hdropped, hfound, everRaw>>
evars == <<epc, records, ridx, tweets, ti, processed, failed, calls, hist>>
ovars == <<parked, pick>>
vars == <<src, dst, today, hpc, hashtags, hidx, hcycle, hsaved, hraised, hdropped,
          hfound, everRaw,
          epc, records, ridx, tweets, ti, processed, failed, calls, hist, parked, pick>>

(***************************************************************************)
(* Bounds of the model.                                                    *)
(***************************************************************************)
MaxTags == 2      \* longest discovered tag list
MaxSearch == 2    \* longest search result
MaxCycles == 2    \* harvest invocations in one behaviour
MaxPosts == 2     \* longest raw file
MaxRecords == 2   \* longest notification batch
MaxCands == 2     \* longest candidate list of a classifier response
MaxRetryTags == 1 \* longest discovered tag list of an invocation that is run again

(***************************************************************************)
(* Program constants.                                                      *)
(***************************************************************************)
MIN_LIKES == 5
MAX_TWEETS_PER_HASHTAG == 125
TopN == 30

(***************************************************************************)
(* Strings.                                                                *)
(***************************************************************************)
Min(a, b) == IF a <= b THEN a ELSE b

\* s[:n]
Take(s, n) == SubSeq(s, 1, Min(Len(s), n))

\* s.endswith(suf)
EndsWith(s, suf) ==
    /\ Len(suf) <= Len(s)
    /\ SubSeq(s, Len(s) - Len(suf) + 1, Len(s)) = suf

\* s.replace(c, by) for a one-character c
RECURSIVE Replace(_, _, _)
Replace(s, c, by) ==
    IF s = <<>> THEN <<>>
    ELSE (IF Head(s) = c THEN by ELSE <<Head(s)>>) \o Replace(Tail(s), c, by)

RECURSIVE LStrip(_, _)
LStrip(s, cs) == IF s # <<>> /\ Head(s) \in cs THEN LStrip(Tail(s), cs) ELSE s

RECURSIVE RStrip(_, _)
RStrip(s, cs) ==
    IF s # <<>> /\ s[Len(s)] \in cs THEN RStrip(SubSeq(s, 1, Len(s) - 1), cs) ELSE s

\* s.strip(chars)
StripChars(s, cs) == RStrip(LStrip(s, cs), cs)

Whitespace == {" ", "NL"}

\* s.strip()
Strip(s) == StripChars(s, Whitespace)

\* re.sub(r'[cs]+', ' ', s): every maximal run of characters of cs becomes one space
RECURSIVE SubRuns(_, _)
SubRuns(s, cs) ==
    IF s = <<>> THEN <<>>
    ELSE IF Head(s) \in cs THEN <<" ">> \o SubRuns(LStrip(s, cs), cs)
    ELSE <<Head(s)>> \o SubRuns(Tail(s), cs)

\* emoji.replace_emoji(s, replace='')
ReplaceEmoji(s) == Replace(s, "EMOJI", <<>>)

\* s.split(sep): the segments between the separators, empty ones kept
RECURSIVE Split(_, _)
Split(s, sep) ==
    IF \A i \in 1..Len(s) : s[i] # sep THEN <<s>>
    ELSE LET i == CHOOSE j \in 1..Len(s) :
                      s[j] = sep /\ \A k \in 1..(j - 1) : s[k] # sep
         IN  <<SubSeq(s, 1, i - 1)>> \o Split(SubSeq(s, i + 1, Len(s)), sep)

\* json.dumps / json.loads: a body is a JSON text, which holds a value, or is not one
JsonDumps(data) == <<"json", data>>
IsJson(body) == body[1] = "json"
JsonLoads(body) == body[2]
NotJson == <<"garbage", <<>>>>

(***************************************************************************)
(* Object storage: put_object, delete_object.                              *)
(***************************************************************************)
Put(bucket, key, body) ==
    [k \in DOMAIN bucket \cup {key} |-> IF k = key THEN body ELSE bucket[k]]

\* Faulty variant of Delete: the object is deleted from another bucket.
DeleteNothing(bucket, key) == bucket

Delete(bucket, key) == [k \in DOMAIN bucket \ {key} |-> bucket[k]]

Exists(bucket, key) == key \in DOMAIN bucket

(***************************************************************************)
(* The harvest lambda.                                                     *)
(***************************************************************************)
\* datetime.now(timezone.utc).strftime("%Y-%m-%d")
Days == {"2024-01-01", "2024-01-02"}

\* what retrieve_top_hashtags can return as one element
Tags == { <<"$", "AAPL">>, <<"$", "MSFT">>, <<"#", "BRK", " ", "B">> }

\* the tweets the search can return: id, likeCount, rawContent
TweetPool ==
    { [id |-> 1, likeCount |-> 9, rawContent |-> <<"EMOJI", "up", "NL", "NL", " ", "now", " ">>],
      [id |-> 2, likeCount |-> 5, rawContent |-> <<"buy">>],
      [id |-> 3, likeCount |-> 4, rawContent |-> <<"sell">>] }

SeqsUpTo(S, n) == UNION { [1..m -> S] : m \in 0..n }

\* the rows of the trending table: each ticker once
Rows(n) == { s \in SeqsUpTo(Tags, n) : \A i, j \in 1..Len(s) : i # j => s[i] # s[j] }

\* retrieve_top_hashtags: tickers[:30]
RetrieveTopHashtags(cells) == Take(cells, TopN)

\* process_tweet_content: the cleaned rawContent
ProcessTweetContent(tweet) ==
    [tweet EXCEPT !.rawContent =
        Strip(SubRuns(SubRuns(ReplaceEmoji(tweet.rawContent), {"NL"}), Whitespace))]

\* Faulty variant of FileName: the `$` left on.
FileNameKeepDollar(tag) ==
    Replace(Replace(tag, "#", <<>>), " ", <<"_">>) \o <<".", "json">>

\* file_name = f"{tag.strip('$').replace('#','').replace(' ','_')}.json"
FileName(tag) ==
    Replace(Replace(StripChars(tag, {"$"}), "#", <<>>), " ", <<"_">>) \o <<".", "json">>

\* load_existing_results reads f"tweets/{file_name}"
ExistingKey(file_name) == <<"tweets", "/">> \o file_name

\* Faulty variant of SaveKey: the key names the run as well as the day.
SaveKeyPerRun(file_name, day) ==
    <<"tweets", "/">> \o file_name
        \o <<"/", "date", "=", day, IF hcycle = 1 THEN "T12" ELSE "T13",
             "/", "data", ".", "json">>

\* save_results_to_s3 writes f"tweets/{file_name}/date={today}/data.json"
SaveKey(file_name, day) ==
    <<"tweets", "/">> \o file_name \o <<"/", "date", "=", day, "/", "data", ".", "json">>

\* load_existing_results: [] when the key does not exist
LoadExistingResults(bucket, file_name) ==
    IF Exists(bucket, ExistingKey(file_name))
    THEN JsonLoads(bucket[ExistingKey(file_name)])
    ELSE <<>>

\* [t for t in tweets if t.likeCount >= MIN_LIKES]
RECURSIVE FilterLikes(_)
FilterLikes(ts) ==
    IF ts = <<>> THEN <<>>
    ELSE (IF Head(ts).likeCount >= MIN_LIKES THEN <<Head(ts)>> ELSE <<>>)
         \o FilterLikes(Tail(ts))

\* sorted(..., key=likeCount, reverse=True): stable, larger likeCount first
RECURSIVE InsertByLikes(_, _)
InsertByLikes(t, sorted) ==
    IF sorted = <<>> THEN <<t>>
    ELSE IF Head(sorted).likeCount >= t.likeCount
         THEN <<Head(sorted)>> \o InsertByLikes(t, Tail(sorted))
         ELSE <<t>> \o sorted

RECURSIVE SortByLikes(_)
SortByLikes(ts) ==
    IF ts = <<>> THEN <<>>
    ELSE InsertByLikes(ts[Len(ts)], SortByLikes(SubSeq(ts, 1, Len(ts) - 1)))

TopTweets(ts) == SortByLikes(FilterLikes(ts))

Absent == [t |-> "absent", v |-> <<>>]
Null == [t |-> "null", v |-> <<>>]
Str(s) == [t |-> "str", v |-> s]
Num(n) == [t |-> "num", v |-> <<n>>]

\* tweet_dict: the Post as the harvest stores it (the author, date, counter and url
\* fields are copied like id and likes and are left out)
TweetDict(tag, t) ==
    LET clean == ProcessTweetContent(t)
    IN  [id |-> clean.id, ticker |-> tag, content |-> Str(clean.rawContent),
         likes |-> clean.likeCount,
         text |-> Absent, rawContent |-> Absent, full_text |-> Absent,
         sentiment |-> Absent, sentiment_score |-> Absent]

InSeq(x, s) == \E i \in 1..Len(s) : s[i] = x

\* Faulty variant of AppendNew: the `not in results` test dropped.
AppendAlways(results, tweet_dict) == Append(results, tweet_dict)

\* if tweet_dict not in results: results.append(tweet_dict)
AppendNew(results, tweet_dict) ==
    IF InSeq(tweet_dict, results) THEN results ELSE Append(results, tweet_dict)

\* the loop `for t in top_tweets` over the loaded results
RECURSIVE Merge(_, _, _)
Merge(results, tag, top) ==
    IF top = <<>> THEN results
    ELSE Merge(AppendNew(results, TweetDict(tag, Head(top))), tag, Tail(top))

\* the searches the model draws from: at most MAX_TWEETS_PER_HASHTAG tweets
Searches == SeqsUpTo(TweetPool, Min(MaxSearch, MAX_TWEETS_PER_HASHTAG))

NoRecord == [k \in {} |-> {}]

\* the Posts recorded under key, with those of the list `data` added
Recorded(log, key, data) ==
    [k \in DOMAIN log \cup {key} |->
        (IF k \in DOMAIN log THEN log[k] ELSE {})
            \cup (IF k = key THEN { data[i] : i \in 1..Len(data) } ELSE {})]

HInit ==
    /\ today \in Days
    /\ hpc = "idle"
    /\ hashtags = <<>>
    /\ hidx = 0
    /\ hcycle = 0
    /\ hsaved = {}
    /\ hraised = 0
    /\ hdropped = 0
    /\ hfound = <<>>
    /\ everRaw = NoRecord

\* lambda_handler -> run_scraper up to the loop: accounts, login, discovery of one
\* of `rows`
HBegin(rows) ==
    /\ hpc \in {"idle", "done", "crashed"}
    /\ hcycle < MaxCycles
    /\ \E cells \in rows :
           hashtags' = RetrieveTopHashtags(cells)
    /\ hpc' = "loop"
    /\ hidx' = 1
    /\ hcycle' = hcycle + 1
    /\ hsaved' = {}
    /\ hraised' = 0
    /\ hdropped' = 0
    /\ hfound' = <<>>
    /\ UNCHANGED <<src, dst, today, everRaw>>
    /\ UNCHANGED <<evars, ovars>>

HStart == HBegin(Rows(MaxTags))

\* the same, the page listing few tickers
HStartFew == HBegin(Rows(MaxRetryTags))

\* load_accounts_from_s3 or retrieve_top_hashtags raises: nothing catches it
HStartRaises ==
    /\ hpc \in {"idle", "done", "crashed"}
    /\ hcycle < MaxCycles
    /\ hpc' = "crashed"
    /\ hashtags' = <<>>
    /\ hidx' = 0
    /\ hcycle' = hcycle + 1
    /\ hsaved' = {}
    /\ hraised' = 0
    /\ hdropped' = 0
    /\ hfound' = <<>>
    /\ UNCHANGED <<src, dst, today, everRaw>>
    /\ UNCHANGED <<evars, ovars>>

\* the invocation is run again after it returned, the same day: the page lists the
\* same tickers
HRetry ==
    /\ hpc = "done"
    /\ hcycle < MaxCycles
    /\ hpc' = "reloop"
    /\ hidx' = 1
    /\ hcycle' = hcycle + 1
    /\ hsaved' = {}
    /\ hraised' = 0
    /\ hdropped' = 0
    /\ UNCHANGED <<src, dst, today, hashtags, hfound, everRaw>>
    /\ UNCHANGED <<evars, ovars>>

\* one iteration of `for tag in hashtags` in which nothing raises and the search
\* returns tweets_found
HIteration(tweets_found) ==
    /\ hidx <= Len(hashtags)
    /\ LET tag == hashtags[hidx]
           file_name == FileName(tag)
       IN  /\ Exists(src, ExistingKey(file_name)) => IsJson(src[ExistingKey(file_name)])
           /\ LET results == LoadExistingResults(src, file_name)
                  top_tweets == TopTweets(tweets_found)
                  merged == Merge(results, tag, top_tweets)
              IN  /\ src' = Put(src, SaveKey(file_name, today), JsonDumps(merged))
                  /\ hdropped' = Len(results) + Len(top_tweets) - Len(merged)
    /\ hsaved' = hsaved \cup {hidx}
    /\ hidx' = hidx + 1
    /\ UNCHANGED <<dst, today, hpc, hashtags, hcycle, hraised>>
    /\ UNCHANGED <<evars, ovars>>

\* an iteration of the loop
HTicker ==
    /\ hpc = "loop"
    /\ \E tweets_found \in Searches : HIteration(tweets_found)
    /\ UNCHANGED <<hfound, everRaw>>

\* an iteration of the loop, what the search returned being recorded
HTickerFirst ==
    /\ hpc = "loop"
    /\ \E tweets_found \in Searches :
           /\ HIteration(tweets_found)
           /\ hfound' = Append(hfound, tweets_found)
    /\ UNCHANGED everRaw

\* an iteration of the loop of the invocation run again: the search returns what it
\* returned before
HTickerAgain ==
    /\ hpc = "reloop"
    /\ hidx <= Len(hfound)
    /\ HIteration(hfound[hidx])
    /\ UNCHANGED <<hfound, everRaw>>

\* an iteration of the loop, the Posts saved being recorded
HTickerTracked ==
    /\ hpc = "loop"
    /\ \E tweets_found \in Searches : HIteration(tweets_found)
    /\ LET key == SaveKey(FileName(hashtags[hidx]), today)
       IN  everRaw' = Recorded(everRaw, key, JsonLoads(src'[key]))
    /\ UNCHANGED hfound

\* one iteration in which load_existing_results, the search or save_results_to_s3
\* raises: the loop has no try, the exception leaves run_scraper and lambda_handler
HTickerRaises ==
    /\ hpc \in {"loop", "reloop"}
    /\ hidx <= Len(hashtags)
    /\ hpc' = "crashed"
    /\ hraised' = hidx
    /\ UNCHANGED <<src, dst, today, hashtags, hidx, hcycle, hsaved, hdropped,
                   hfound, everRaw>>
    /\ UNCHANGED <<evars, ovars>>

\* the loop is over: return {"status": "success"}
HReturn ==
    /\ hpc \in {"loop", "reloop"}
    /\ hidx > Len(hashtags)
    /\ hpc' = "done"
    /\ UNCHANGED <<src, dst, today, hashtags, hidx, hcycle, hsaved, hraised, hdropped,
                   hfound, everRaw>>
    /\ UNCHANGED <<evars, ovars>>

(***************************************************************************)
(* The enrichment lambda.                                                  *)
(***************************************************************************)
MAX_CHARS == 1024

\* urllib.parse.unquote_plus: "+" is a space, a percent escape is its character
UnquoteToken(c) ==
    CASE c = "+" -> " "
      [] c = "%3D" -> "="
      [] c = "%2F" -> "/"
      [] c = "%24" -> "$"
      [] OTHER -> c

UnquotePlus(s) == [i \in 1..Len(s) |-> UnquoteToken(s[i])]

\* key.endswith("/data.json")
HasDataSuffix(key) == EndsWith(key, <<"/", "data", ".", "json">>)

\* parts = key.split("/")
Parts(key) == Split(key, "/")

\* not (len(parts) != 4 or parts[0] != "tweets")
HasStructure(key) == Len(Parts(key)) = 4 /\ Parts(key)[1] = <<"tweets">>

\* the record passes both `continue` tests
Accepted(key) == HasDataSuffix(key) /\ HasStructure(key)

\* s.rsplit(sep, 1)[0]
RSplitHead(s, sep) ==
    IF \A i \in 1..Len(s) : s[i] # sep THEN s
    ELSE LET i == CHOOSE j \in 1..Len(s) :
                      s[j] = sep /\ \A k \in (j + 1)..Len(s) : s[k] # sep
         IN  SubSeq(s, 1, i - 1)

\* s.split(sep, 1)[-1]
SplitTail(s, sep) ==
    IF \A i \in 1..Len(s) : s[i] # sep THEN s
    ELSE LET i == CHOOSE j \in 1..Len(s) :
                      s[j] = sep /\ \A k \in 1..(j - 1) : s[k] # sep
         IN  SubSeq(s, i + 1, Len(s))

\* Faulty variant of Ticker: the extension left on.
TickerWithExt(key) == Parts(key)[2]

\* ticker = parts[1].rsplit(".", 1)[0]
Ticker(key) == RSplitHead(Parts(key)[2], ".")

\* date = parts[2].split("=", 1)[-1]
Date(key) == SplitTail(Parts(key)[3], "=")

\* dest_key = f"{ticker}-{date}.json"
DestKey(key) == Ticker(key) \o <<"-">> \o Date(key) \o <<".", "json">>

\* Python truth of a JSON value held by a Post field (None when the field is absent)
Truthy(v) == (v.t = "str" /\ v.v # <<>>) \/ (v.t = "num" /\ v.v # <<0>>)

\* tw.get("content") or tw.get("text") or tw.get("rawContent") or tw.get("full_text") or ""
FirstTruthy(tw) ==
    IF Truthy(tw.content) THEN tw.content
    ELSE IF Truthy(tw.text) THEN tw.text
    ELSE IF Truthy(tw.rawContent) THEN tw.rawContent
    ELSE IF Truthy(tw.full_text) THEN tw.full_text
    ELSE Str(<<>>)

\* .strip() exists on str only: anything else raises AttributeError
TextRaises(tw) == FirstTruthy(tw).t # "str"

\* Faulty variant of SelectText: the .strip() dropped.
SelectTextNoStrip(tw) == FirstTruthy(tw).v

\* text = ( ... ).strip()
SelectText(tw) == Strip(FirstTruthy(tw).v)

\* text[:MAX_CHARS]
Truncate(text) == Take(text, MAX_CHARS)

Sentinel == [label |-> Str(<<"unknown">>), score |-> Num(0)]

\* Faulty variant of SetSentiment: the label stored in the content field.
SetSentimentClobber(tw, label, score) ==
    [tw EXCEPT !.content = label, !.sentiment = label, !.sentiment_score = score]

\* tw["sentiment"] = label; tw["sentiment_score"] = score
SetSentiment(tw, label, score) ==
    [tw EXCEPT !.sentiment = label, !.sentiment_score = score]

(***************************************************************************)
(* _pick_best_label.  A response is [kind |-> "list", items |-> ...] or    *)
(* [kind |-> "other"]; an item is a list of the same shape, a dict         *)
(* [kind |-> "dict", label |-> ..., score |-> ...] or something else.  A   *)
(* score is a number or a numeric string in tenths, null or absent.        *)
(***************************************************************************)
Dict(label, score) == [kind |-> "dict", label |-> label, score |-> score]
List(items) == [kind |-> "list", items |-> items]
Other == [kind |-> "other"]

\* preds = first if isinstance(first, list) else result_json
Preds(result_json) ==
    IF result_json.items[1].kind = "list" THEN result_json.items[1].items
    ELSE result_json.items

\* [p for p in preds if isinstance(p, dict) and "label" in p]
RECURSIVE FilterPreds(_)
FilterPreds(preds) ==
    IF preds = <<>> THEN <<>>
    ELSE (IF Head(preds).kind = "dict" /\ Head(preds).label.t # "absent"
          THEN <<Head(preds)>> ELSE <<>>) \o FilterPreds(Tail(preds))

\* x.get("score", 0.0)
ScoreKey(p) == IF p.score.t = "absent" THEN Num(0) ELSE p.score

\* `>` is defined between two numbers and between two strings
Comparable(a, b) == a.t = b.t /\ a.t \in {"num", "str"}

\* Faulty variant of BestIdx: the last candidate taken, whatever its score.
BestIdxLast(preds, n) == n

\* max(preds, key=...): the index of the first largest among the first n
RECURSIVE BestIdx(_, _)
BestIdx(preds, n) ==
    IF n = 1 THEN 1
    ELSE LET b == BestIdx(preds, n - 1)
         IN  IF ScoreKey(preds[n]).v[1] > ScoreKey(preds[b]).v[1] THEN n ELSE b

\* max raises TypeError when it compares two keys `>` is not defined between
RECURSIVE MaxRaises(_, _)
MaxRaises(preds, n) ==
    IF n = 1 THEN FALSE
    ELSE \/ MaxRaises(preds, n - 1)
         \/ ~Comparable(ScoreKey(preds[n]), ScoreKey(preds[BestIdx(preds, n - 1)]))

\* float(x) raises TypeError on None
FloatRaises(v) == v.t \notin {"num", "str"}
Float(v) == Num(v.v[1])

\* whether _pick_best_label raises
PickRaises(result_json) ==
    /\ result_json.kind = "list"
    /\ result_json.items # <<>>
    /\ LET preds == FilterPreds(Preds(result_json))
       IN  /\ preds # <<>>
           /\ \/ MaxRaises(preds, Len(preds))
              \/ FloatRaises(ScoreKey(preds[BestIdx(preds, Len(preds))]))

\* what _pick_best_label returns when it does not raise
PickBestLabel(result_json) ==
    IF result_json.kind = "list" /\ result_json.items # <<>>
    THEN LET preds == FilterPreds(Preds(result_json))
         IN  IF preds # <<>>
             THEN LET best == preds[BestIdx(preds, Len(preds))]
                  IN  [label |-> best.label, score |-> Float(ScoreKey(best))]
             ELSE Sentinel
    ELSE Sentinel

\* what the endpoint can answer
Responses ==
    { List(<<Dict(Str(<<"positive">>), Num(3)), Dict(Str(<<"negative">>), Num(9))>>),
      List(<<List(<<Dict(Str(<<"negative">>), Num(9)), Dict(Absent, Num(10))>>)>>),
      List(<<Dict(Null, Num(9))>>),
      List(<<Dict(Str(<<"positive">>), Null)>>),
      List(<<>>),
      Other }

\* Faulty variant of Caught: the try opens after get_object.
CaughtNotGet(step) == step \in {"loads", "enrich", "infer", "put", "delete"}

\* Faulty variant of Caught: the delete sits after the try.
CaughtButDelete(step) == step \in {"get", "loads", "enrich", "infer", "put"}

\* the steps inside `try:` ... `except Exception as e`
Caught(step) == step \in {"get", "loads", "enrich", "infer", "put", "delete"}

\* Faulty variant of InnerCaught: only the parsing of the response is guarded.
InnerCaughtParse(step) == step \in {"loads", "pick"}

\* the steps inside the inner `try:` ... `except Exception as model_err`
InnerCaught(step) == step \in {"invoke", "loads", "pick"}

\* Faulty variant of StepAfter: the raw file deleted before the enriched one is written.
StepAfterSwapped(step) ==
    CASE step = "enrich" -> "delete"
      [] step = "delete" -> "put"
      [] step = "put" -> "processed"

\* the order of the statements after the Posts loop: put_object, delete_object,
\* processed.append
StepAfter(step) ==
    CASE step = "enrich" -> "put"
      [] step = "put" -> "delete"
      [] step = "delete" -> "processed"

\* a notification record; its bucket is taken to be the source bucket
Record(key) == [s3 |-> TRUE, key |-> key]
Malformed == [s3 |-> FALSE, key |-> <<>>]

\* key = urllib.parse.unquote_plus(record["s3"]["object"]["key"])
CurKey == UnquotePlus(records[ridx].key)

Note(ev) == [hist EXCEPT ![ridx] = Append(@, ev)]

\* the locals of an invocation that has not started
Idle ==
    [epc |-> "idle", records |-> <<>>, ridx |-> 0, tweets |-> <<>>, ti |-> 0,
     processed |-> <<>>, failed |-> <<>>, calls |-> <<>>, hist |-> <<>>]

EInit ==
    /\ epc = "idle"
    /\ records = <<>>
    /\ ridx = 0
    /\ tweets = <<>>
    /\ ti = 0
    /\ processed = <<>>
    /\ failed = <<>>
    /\ calls = <<>>
    /\ hist = <<>>
    /\ parked = Idle
    /\ pick = <<>>

\* an exception with message msg leaves `step` of the current record
Raise(step, msg) ==
    /\ hist' = Note(<<step, msg>>)
    /\ IF Caught(step)
       THEN /\ failed' = Append(failed, [file |-> CurKey, error |-> msg])
            /\ ridx' = ridx + 1
            /\ epc' = "record"
       ELSE /\ epc' = "crashed"
            /\ UNCHANGED <<failed, ridx>>

\* Faulty variant of Advance: processed.append(key) sits before delete_object.
AdvanceEarly(step) ==
    IF step = "put"
    THEN /\ processed' = Append(processed, CurKey)
         /\ epc' = "delete"
         /\ UNCHANGED ridx
    ELSE /\ ridx' = ridx + 1
         /\ epc' = "record"
         /\ UNCHANGED processed

\* the next statement after `step` of the current record ended normally
Advance(step) ==
    LET next == StepAfter(step)
    IN  IF next = "processed"
        THEN /\ processed' = Append(processed, CurKey)
             /\ ridx' = ridx + 1
             /\ epc' = "record"
        ELSE /\ epc' = next
             /\ UNCHANGED <<processed, ridx>>

\* the keys a notification can carry, URL-encoded as the event has them
EventKeys ==
    { <<"tweets", "/", "AAPL", ".", "json", "/", "date", "%3D", "2024-01-01", "/", "data", ".", "json">>,
      <<"tweets", "/", "MSFT", ".", "json", "/", "date", "=", "2024-01-01", "/", "data", ".", "json">>,
      <<"tweets", "/", "AAPL", ".", "json", "/", "2024-01-01", "/", "data", ".", "json">>,
      <<"tweets", "/", "AAPL", ".", "json", "/", "date", "=", "2024-01-01", "/", "notdata", ".", "json">>,
      <<"other", "/", "AAPL", ".", "json", "/", "data", ".", "json">> }

EventRecords == { Record(k) : k \in EventKeys } \cup {Malformed}

\* an event of several records, and the event of one storage notification
Batches == SeqsUpTo(EventRecords, MaxRecords)
SingleRecord == { <<r>> : r \in EventRecords }

\* Faulty variant of AfterPost: the loop left after its first Post.
AfterPostEarly(n) == StepAfter("enrich")

\* where the record goes once the Post at index n - 1 is done
AfterPost(n) == IF n > Len(tweets) THEN StepAfter("enrich") ELSE "enrich"

\* lambda_handler is invoked with an event of `events`
Invoke(events) ==
    /\ epc = "idle"
    /\ \E batch \in events :
           /\ records' = batch
           /\ hist' = [i \in 1..Len(batch) |-> <<>>]
    /\ epc' = "record"
    /\ ridx' = 1
    /\ tweets' = <<>>
    /\ ti' = 0
    /\ processed' = <<>>
    /\ failed' = <<>>
    /\ calls' = <<>>
    /\ UNCHANGED <<src, dst>>
    /\ UNCHANGED <<hvars, ovars>>

\* invoked with a batch of notification records
EStart == Invoke(Batches)

\* invoked for one storage notification
EStartOne == Invoke(SingleRecord)

AtRecord == epc = "record" /\ ridx <= Len(records)

\* record["s3"]["bucket"]["name"] on a record without them: KeyError, before the try
EReceiveRaises ==
    /\ AtRecord
    /\ ~records[ridx].s3
    /\ Raise("receive", "KeyError")
    /\ UNCHANGED <<src, dst, records, tweets, ti, processed, calls>>
    /\ UNCHANGED <<hvars, ovars>>

\* if not key.endswith("/data.json"): continue
ESkipSuffix ==
    /\ AtRecord
    /\ records[ridx].s3
    /\ ~HasDataSuffix(CurKey)
    /\ hist' = Note(<<"skip", "suffix">>)
    /\ ridx' = ridx + 1
    /\ UNCHANGED <<src, dst, epc, records, tweets, ti, processed, failed, calls>>
    /\ UNCHANGED <<hvars, ovars>>

\* if len(parts) != 4 or parts[0] != "tweets": continue
ESkipStructure ==
    /\ AtRecord
    /\ records[ridx].s3
    /\ HasDataSuffix(CurKey)
    /\ ~HasStructure(CurKey)
    /\ hist' = Note(<<"skip", "structure">>)
    /\ ridx' = ridx + 1
    /\ UNCHANGED <<src, dst, epc, records, tweets, ti, processed, failed, calls>>
    /\ UNCHANGED <<hvars, ovars>>

\* get_object and json.loads succeed
ELoad ==
    /\ AtRecord
    /\ records[ridx].s3
    /\ Accepted(CurKey)
    /\ Exists(src, CurKey)
    /\ IsJson(src[CurKey])
    /\ tweets' = JsonLoads(src[CurKey])
    /\ ti' = 1
    /\ epc' = IF tweets' = <<>> THEN StepAfter("enrich") ELSE "enrich"
    /\ hist' = Note(<<"get", "ok">>)
    /\ UNCHANGED <<src, dst, records, ridx, processed, failed, calls>>
    /\ UNCHANGED <<hvars, ovars>>

\* get_object raises (no such key, or the service fails) or json.loads raises
ELoadRaises ==
    /\ AtRecord
    /\ records[ridx].s3
    /\ Accepted(CurKey)
    /\ \/ /\ ~Exists(src, CurKey)
          /\ Raise("get", "NoSuchKey")
       \/ Raise("get", "ClientError")
       \/ /\ Exists(src, CurKey)
          /\ ~IsJson(src[CurKey])
          /\ Raise("loads", "JSONDecodeError")
    /\ UNCHANGED <<src, dst, records, tweets, ti, processed, calls>>
    /\ UNCHANGED <<hvars, ovars>>

AtPost == epc = "enrich" /\ ti <= Len(tweets)

\* if not text: the sentinel, and `continue`
EPostNoText ==
    /\ AtPost
    /\ ~TextRaises(tweets[ti])
    /\ SelectText(tweets[ti]) = <<>>
    /\ tweets' = [tweets EXCEPT ![ti] = SetSentiment(@, Sentinel.label, Sentinel.score)]
    /\ ti' = ti + 1
    /\ epc' = AfterPost(ti + 1)
    /\ hist' = Note(<<"post", "sentinel">>)
    /\ UNCHANGED <<src, dst, records, ridx, processed, failed, calls>>
    /\ UNCHANGED <<hvars, ovars>>

\* what invoke_endpoint is sent for the Post at ti
Call == [rec |-> ridx, post |-> ti, text |-> Truncate(SelectText(tweets[ti]))]

\* invoke_endpoint answers, json.loads and _pick_best_label return
EPostInfer ==
    /\ AtPost
    /\ ~TextRaises(tweets[ti])
    /\ SelectText(tweets[ti]) # <<>>
    /\ \E result \in Responses :
           /\ ~PickRaises(result)
           /\ tweets' = [tweets EXCEPT ![ti] =
                  SetSentiment(@, PickBestLabel(result).label, PickBestLabel(result).score)]
    /\ calls' = Append(calls, Call)
    /\ ti' = ti + 1
    /\ epc' = AfterPost(ti + 1)
    /\ hist' = Note(<<"post", "inferred">>)
    /\ UNCHANGED <<src, dst, records, ridx, processed, failed>>
    /\ UNCHANGED <<hvars, ovars>>

\* invoke_endpoint, json.loads of the answer or _pick_best_label raises
EPostInferRaises ==
    /\ AtPost
    /\ ~TextRaises(tweets[ti])
    /\ SelectText(tweets[ti]) # <<>>
    /\ calls' = Append(calls, Call)
    /\ \E step \in {"invoke", "loads", "pick"} :
           /\ step = "pick" => \E result \in Responses : PickRaises(result)
           /\ IF InnerCaught(step)
              THEN /\ tweets' = [tweets EXCEPT ![ti] =
                          SetSentiment(@, Sentinel.label, Sentinel.score)]
                   /\ ti' = ti + 1
                   /\ epc' = AfterPost(ti + 1)
                   /\ hist' = Note(<<"post", "model_err">>)
                   /\ UNCHANGED <<ridx, failed>>
              ELSE /\ Raise("infer", "ModelError")
                   /\ UNCHANGED <<tweets, ti>>
    /\ UNCHANGED <<src, dst, records, processed>>
    /\ UNCHANGED <<hvars, ovars>>

\* the selected field is no string: .strip() raises, outside the inner try
EPostRaises ==
    /\ AtPost
    /\ TextRaises(tweets[ti])
    /\ Raise("enrich", "AttributeError")
    /\ UNCHANGED <<src, dst, records, tweets, ti, processed, calls>>
    /\ UNCHANGED <<hvars, ovars>>

\* put_object of the enriched list succeeds
EWrite ==
    /\ epc = "put"
    /\ dst' = Put(dst, DestKey(CurKey), JsonDumps(tweets))
    /\ hist' = Note(<<"put", "ok">>)
    /\ Advance("put")
    /\ UNCHANGED <<src, records, tweets, ti, failed, calls>>
    /\ UNCHANGED <<hvars, ovars>>

EWriteRaises ==
    /\ epc = "put"
    /\ Raise("put", "ClientError")
    /\ UNCHANGED <<src, dst, records, tweets, ti, processed, calls>>
    /\ UNCHANGED <<hvars, ovars>>

\* delete_object of the raw file succeeds
EDelete ==
    /\ epc = "delete"
    /\ src' = Delete(src, CurKey)
    /\ hist' = Note(<<"delete", "ok">>)
    /\ Advance("delete")
    /\ UNCHANGED <<dst, records, tweets, ti, failed, calls>>
    /\ UNCHANGED <<hvars, ovars>>

EDeleteRaises ==
    /\ epc = "delete"
    /\ Raise("delete", "ClientError")
    /\ UNCHANGED <<src, dst, records, tweets, ti, processed, calls>>
    /\ UNCHANGED <<hvars, ovars>>

\* the records loop is over: return {"processed": processed, "failed": failed}
EReturn ==
    /\ epc = "record"
    /\ ridx > Len(records)
    /\ epc' = "returned"
    /\ UNCHANGED <<src, dst, records, ridx, tweets, ti, processed, failed, calls, hist>>
    /\ UNCHANGED <<hvars, ovars>>

EmptyBucket == [k \in {} |-> NotJson]

\* objects found under tweets/{file_name} when the harvest first runs: none, or an
\* earlier duplicate-free result list of one ticker
ExistingFiles ==
    { EmptyBucket,
      Put(EmptyBucket, ExistingKey(FileName(<<"$", "AAPL">>)),
          JsonDumps(<<TweetDict(<<"$", "AAPL">>,
                                [id |-> 2, likeCount |-> 5, rawContent |-> <<"buy">>])>>)) }

StoreInitHarvest ==
    /\ src \in ExistingFiles
    /\ dst = EmptyBucket

InitHarvest == HInit /\ EInit /\ StoreInitHarvest

NextHarvest ==
    \/ HStart
    \/ HStartRaises
    \/ HTicker
    \/ HTickerRaises
    \/ HReturn

SpecHarvest == InitHarvest /\ [][NextHarvest]_vars

InitRetry ==
    /\ HInit
    /\ today = "2024-01-01"
    /\ EInit
    /\ StoreInitHarvest

NextRetry ==
    \/ HStartFew
    \/ HStartRaises
    \/ HRetry
    \/ HTickerFirst
    \/ HTickerAgain
    \/ HTickerRaises
    \/ HReturn

\* harvest invocations, an invocation that returned being run again the same day
\* with the same tickers discovered and the same tweets found
SpecRetry == InitRetry /\ [][NextRetry]_vars

(***************************************************************************)
(* The enrichment lambda on what it can find in the bucket.                *)
(***************************************************************************)
Day1 == "2024-01-01"
AAPL == <<"$", "AAPL">>
MSFT == <<"$", "MSFT">>
Buy == TweetDict(AAPL, [id |-> 2, likeCount |-> 5, rawContent |-> <<"buy">>])

\* the Posts a raw file can hold
PostPool ==
    { Buy,
      [Buy EXCEPT !.id = 4, !.content = Str(<<" ">>), !.text = Str(<<"hold">>)],
      [Buy EXCEPT !.id = 5, !.content = Str(<<>>), !.text = Str(<<" ", "NL">>),
                  !.rawContent = Null],
      [Buy EXCEPT !.id = 6, !.content = Null, !.text = Str(<<>>),
                  !.rawContent = Str(<<" ", "sell", " ">>)],
      [Buy EXCEPT !.id = 7, !.content = Num(7)] }

RawFiles == { JsonDumps(posts) : posts \in SeqsUpTo(PostPool, MaxPosts) }

RawKey1 == SaveKey(FileName(AAPL), Day1)
RawKey2 == SaveKey(FileName(MSFT), Day1)

\* the source bucket with the harvested file of MSFT
OneFile ==
    Put(EmptyBucket, RawKey2,
        JsonDumps(<<TweetDict(MSFT, [id |-> 2, likeCount |-> 5, rawContent |-> <<"buy">>])>>))

\* the source bucket when a one-record invocation starts: at the AAPL key any raw
\* file, a body that is no JSON, or nothing
RawBuckets == {OneFile} \cup { Put(OneFile, RawKey1, b) : b \in RawFiles \cup {NotJson} }

\* the source bucket when a batch invocation starts: at the AAPL key a file with a
\* Post without text, a file with a Post whose content is no string, a body that is
\* no JSON, or nothing
BatchBuckets ==
    LET p(i) == CHOOSE q \in PostPool : q.id = i
    IN  { OneFile,
          Put(OneFile, RawKey1, NotJson),
          Put(OneFile, RawKey1, JsonDumps(<<p(5), p(2)>>)),
          Put(OneFile, RawKey1, JsonDumps(<<p(2), p(7)>>)) }

InitEnrich ==
    /\ HInit
    /\ today = Day1
    /\ EInit
    /\ src \in BatchBuckets
    /\ dst = EmptyBucket

InitPosts ==
    /\ HInit
    /\ today = Day1
    /\ EInit
    /\ src \in RawBuckets
    /\ dst = EmptyBucket

\* what an invocation does once it is started
EStep ==
    \/ EReceiveRaises
    \/ ESkipSuffix
    \/ ESkipStructure
    \/ ELoad
    \/ ELoadRaises
    \/ EPostNoText
    \/ EPostInfer
    \/ EPostInferRaises
    \/ EPostRaises
    \/ EWrite
    \/ EWriteRaises
    \/ EDelete
    \/ EDeleteRaises
    \/ EReturn

NextEnrich == EStart \/ EStep

NextPosts == EStartOne \/ EStep

\* one invocation on a batch of records
SpecEnrich == InitEnrich /\ [][NextEnrich]_vars

\* one invocation on one notification, over every raw file
SpecPosts == InitPosts /\ [][NextPosts]_vars

(***************************************************************************)
(* Two enrichment invocations at once.  The variables epc .. hist are the  *)
(* locals of the invocation that is running, `parked` holds the locals of  *)
(* the other one; Switch hands the processor over.  Nothing in the handler *)
(* keeps two invocations apart: they share the two buckets only.           *)
(***************************************************************************)
Locals ==
    [epc |-> epc, records |-> records, ridx |-> ridx, tweets |-> tweets, ti |-> ti,
     processed |-> processed, failed |-> failed, calls |-> calls, hist |-> hist]

\* the other invocation runs on; an invocation is left between two of its calls to
\* the storage service (the Posts loop touches nothing the other one can see)
Switch ==
    /\ epc # "enrich"
    /\ parked # Locals
    /\ parked' = Locals
    /\ epc' = parked.epc
    /\ records' = parked.records
    /\ ridx' = parked.ridx
    /\ tweets' = parked.tweets
    /\ ti' = parked.ti
    /\ processed' = parked.processed
    /\ failed' = parked.failed
    /\ calls' = parked.calls
    /\ hist' = parked.hist
    /\ UNCHANGED <<src, dst, pick>>
    /\ UNCHANGED hvars

\* the notification of the AAPL file as the event carries it, and that of the MSFT file
EventKey1 ==
    <<"tweets", "/", "AAPL", ".", "json", "/", "date", "%3D", Day1, "/", "data", ".", "json">>
EventKey2 == RawKey2

\* the events of the deliveries: the AAPL notification alone, or in a batch with the
\* MSFT one
Deliveries == { <<Record(EventKey1)>>, <<Record(EventKey1), Record(EventKey2)>> }

\* an invocation is started with a delivery
EStartDelivery == Invoke(Deliveries)

\* both harvested files are in the source bucket
TwoFiles == Put(OneFile, RawKey1, JsonDumps(<<Buy>>))

InitRedeliver ==
    /\ HInit
    /\ today = Day1
    /\ EInit
    /\ src = TwoFiles
    /\ dst = EmptyBucket

NextRedeliver ==
    \/ EStartDelivery
    \/ Switch
    \/ ELoad
    \/ ELoadRaises
    \/ EPostInfer
    \/ EPostInferRaises
    \/ EWrite
    \/ EWriteRaises
    \/ EDelete
    \/ EDeleteRaises
    \/ EReturn

\* two invocations on deliveries of the same notification, one after the other or
\* interleaved
SpecRedeliver == InitRedeliver /\ [][NextRedeliver]_vars

(***************************************************************************)
(* _pick_best_label on its own, over the responses a classifier can send.  *)
(***************************************************************************)
\* what an element of a response can be: a candidate with label and score, one
\* without label, one without score, one with a null label or a null score, and
\* something that is no dict
CandPool ==
    { Dict(Str(<<"pos">>), Num(3)),
      Dict(Str(<<"neg">>), Num(9)),
      Dict(Str(<<"neu">>), Num(9)),
      Dict(Absent, Num(10)),
      Dict(Str(<<"pos">>), Absent),
      Dict(Null, Num(9)),
      Dict(Str(<<"pos">>), Null),
      Other }

\* the responses: a list of elements, the same nested one level, or no list at all
PickInputs ==
    { List(c) : c \in SeqsUpTo(CandPool, MaxCands) }
        \cup { List(<<List(c)>>) : c \in SeqsUpTo(CandPool, MaxCands) }
        \cup { Other }

\* _pick_best_label(result_json) is called
PickCall ==
    /\ pick = <<>>
    /\ \E result_json \in PickInputs : pick' = <<result_json>>
    /\ UNCHANGED <<src, dst, hvars, evars, parked>>

\* it returns a pair (label, score), or raises
PickReturn ==
    /\ Len(pick) = 1
    /\ pick' = Append(pick,
                 IF PickRaises(pick[1])
                 THEN [raised |-> TRUE, label |-> Absent, score |-> Absent]
                 ELSE [raised |-> FALSE, label |-> PickBestLabel(pick[1]).label,
                       score |-> PickBestLabel(pick[1]).score])
    /\ UNCHANGED <<src, dst, hvars, evars, parked>>

InitPick ==
    /\ HInit
    /\ today = Day1
    /\ EInit
    /\ src = EmptyBucket
    /\ dst = EmptyBucket

NextPick == PickCall \/ PickReturn

SpecPick == InitPick /\ [][NextPick]_vars

(***************************************************************************)
(* The two lambdas together: the harvest saves raw files, each save sends  *)
(* a notification, an enrichment invocation runs on a notification.        *)
(***************************************************************************)
\* the page lists the AAPL ticker
HStartOne == HBegin({<<AAPL>>})

\* the events of the notifications sent so far: one for each raw key ever saved
Notified == { <<Record(k)>> : k \in DOMAIN everRaw }

\* an invocation is started with a notification of a saved raw file
ENotify == Invoke(Notified)

\* the invocation is over; the next one starts with its own locals
EEnd ==
    /\ epc \in {"returned", "crashed"}
    /\ epc' = Idle.epc
    /\ records' = Idle.records
    /\ ridx' = Idle.ridx
    /\ tweets' = Idle.tweets
    /\ ti' = Idle.ti
    /\ processed' = Idle.processed
    /\ failed' = Idle.failed
    /\ calls' = Idle.calls
    /\ hist' = Idle.hist
    /\ UNCHANGED <<src, dst>>
    /\ UNCHANGED <<hvars, ovars>>

InitPipeline ==
    /\ HInit
    /\ today = Day1
    /\ EInit
    /\ src = EmptyBucket
    /\ dst = EmptyBucket

NextPipeline ==
    \/ HStartOne
    \/ HStartRaises
    \/ HTickerTracked
    \/ HTickerRaises
    \/ HReturn
    \/ ENotify
    \/ EEnd
    \/ ELoad
    \/ ELoadRaises
    \/ EPostInfer
    \/ EPostInferRaises
    \/ EWrite
    \/ EWriteRaises
    \/ EDelete
    \/ EDeleteRaises
    \/ EReturn

\* harvest invocations and enrichment invocations of one day, in any interleaving
SpecPipeline == InitPipeline /\ [][NextPipeline]_vars

(***************************************************************************)
(* Properties of the harvest.                                              *)
(***************************************************************************)
Posts(body) == { JsonLoads(body)[i] : i \in 1..Len(JsonLoads(body)) }

NoDup(s) == \A i, j \in 1..Len(s) : i # j => s[i] # s[j]

\* C1: when a harvest invocation has ended, every discovered ticker that was not
\* saved is the one whose load or search raised: a raise at one ticker is caught,
\* and every other ticker's Result Set is still written.
C1_OtherTickersSaved ==
    hpc \in {"done", "crashed"} =>
        \A i \in 1..Len(hashtags) : i \notin hsaved => i = hraised

\* C7: no object the harvest stores holds two structurally identical Posts.
C7_NoDuplicatePosts ==
    \A k \in DOMAIN src : IsJson(src[k]) => NoDup(JsonLoads(src[k]))

\* a batch with a Post that the loaded results already held has just been merged and
\* saved: the stored list holds the loaded Post and a new one, the duplicate is left out
C7_Witness ==
    /\ hpc = "loop"
    /\ hidx > 1
    /\ hdropped > 0
    /\ Exists(src, ExistingKey(FileName(hashtags[hidx - 1])))
    /\ Exists(src, SaveKey(FileName(hashtags[hidx - 1]), today))
    /\ Len(JsonLoads(src[SaveKey(FileName(hashtags[hidx - 1]), today)])) >= 2

\* C8: a harvest step that rewrites an existing raw partition file keeps every Post
\* the file held (the partition's Result Set only grows across runs).
C8_PartitionOnlyGrows ==
    [][\A k \in DOMAIN src : k \in DOMAIN src' => Posts(src[k]) \subseteq Posts(src'[k])]_vars

\* C15: an iteration of an invocation that is run again the same day, with the same
\* tickers and the same tweets found, leaves every object as it was: the ticker's
\* day-partition object is there with the content the first run gave it, and no
\* object is added.
C15_RetryLeavesStore ==
    [][(hpc = "reloop" /\ hsaved' # hsaved) =>
           /\ Exists(src', SaveKey(FileName(hashtags[hidx]), today))
           /\ src' = src
      ]_vars

\* the second run of a cycle is over, and the ticker's object holds two Posts
C15_Witness ==
    /\ hpc = "reloop"
    /\ hidx > Len(hashtags)
    /\ hsaved # {}
    /\ \E i \in hsaved :
           /\ Exists(src, SaveKey(FileName(hashtags[i]), today))
           /\ Len(JsonLoads(src[SaveKey(FileName(hashtags[i]), today)])) >= 2

\* the harvested symbol: the tag without its `$` prefix
Symbol(tag) == IF tag # <<>> /\ Head(tag) = "$" THEN Tail(tag) ELSE tag

\* the symbol as the file name spells it: no `$` at either end, no `#`, `_` for a space
Spelled(tag) == Replace(Replace(StripChars(tag, {"$"}), "#", <<>>), " ", <<"_">>)

\* the raw key of the tag saved at index i of this invocation
SavedKey(i) == SaveKey(FileName(hashtags[i]), today)

\* C20 as claimed: every raw key the harvest saved is accepted by the enrichment's key
\* validation, and the ticker and date derived from it are the harvested symbol
\* (without its `$` prefix) and the day.
C20_TickerIsSymbol ==
    \A i \in hsaved :
        /\ Exists(src, SavedKey(i))
        /\ Accepted(UnquotePlus(SavedKey(i)))
        /\ Ticker(UnquotePlus(SavedKey(i))) = Symbol(hashtags[i])
        /\ Date(UnquotePlus(SavedKey(i))) = <<today>>

\* C20 as amended: every raw key the harvest saved is accepted, the date derived from
\* it is the day, and the ticker derived from it is the symbol as the file name
\* spells it, which is the symbol itself when it holds no `$`, `#` or space; two
\* accepted raw keys in the bucket map to two Enriched File keys.
C20_TickerIsSpelledSymbol ==
    /\ \A i \in hsaved :
           /\ Exists(src, SavedKey(i))
           /\ Accepted(UnquotePlus(SavedKey(i)))
           /\ Ticker(UnquotePlus(SavedKey(i))) = Spelled(hashtags[i])
           /\ (\A n \in 1..Len(Symbol(hashtags[i])) :
                   Symbol(hashtags[i])[n] \notin {"$", "#", " "}) =>
                  Ticker(UnquotePlus(SavedKey(i))) = Symbol(hashtags[i])
           /\ Date(UnquotePlus(SavedKey(i))) = <<today>>
    /\ \A k1, k2 \in DOMAIN src :
           (Accepted(k1) /\ Accepted(k2) /\ k1 # k2) => DestKey(k1) # DestKey(k2)

\* an invocation saved a cashtag and a tag with `#` and a space
C20_Witness ==
    /\ hpc = "done"
    /\ \E i, j \in hsaved :
           /\ hashtags[i] = AAPL
           /\ hashtags[j] = <<"#", "BRK", " ", "B">>

(***************************************************************************)
(* Properties of the enrichment.                                           *)
(***************************************************************************)
KeyOf(i) == UnquotePlus(records[i].key)

\* record i took `step` and it ended normally
Did(i, step) == \E j \in 1..Len(hist[i]) : hist[i][j] = <<step, "ok">>

\* record i took `step` and it raised
Raised(i, step) ==
    \E j \in 1..Len(hist[i]) : hist[i][j][1] = step /\ hist[i][j][2] # "ok"

\* the event is among the events of a record
Has(events, ev) == \E j \in 1..Len(events) : events[j] = ev

Attempted(i, step) == \E j \in 1..Len(hist[i]) : hist[i][j][1] = step

TrySteps == {"get", "loads", "enrich", "put", "delete"}

\* record i has its outcome: skipped, failed or processed
Settled(i) ==
    /\ hist[i] # <<>>
    /\ LET e == hist[i][Len(hist[i])]
       IN  \/ e[1] = "skip"
           \/ e[1] \in TrySteps /\ e[2] # "ok"
           \/ e = <<"delete", "ok">>

\* C2 as claimed: when the invocation returns, a record's raw file was deleted by it
\* if and only if its Enriched File was written by it.
C2_DeletedIffWritten ==
    epc = "returned" =>
        \A i \in 1..Len(records) : Did(i, "delete") <=> Did(i, "put")

\* C2 as amended: the raw file is deleted by the invocation only if the Enriched
\* File was written by it before (and is then gone from the source bucket, the
\* Enriched File being in the destination bucket); a written Enriched File whose raw
\* file was not deleted by the time the invocation returns is one whose delete raised,
\* which is recorded in the failed list.
C2_DeletedOnlyIfWritten ==
    \A i \in 1..Len(hist) :
        /\ Did(i, "delete") =>
               /\ Did(i, "put")
               /\ ~Exists(src, KeyOf(i))
        /\ Did(i, "put") => Exists(dst, DestKey(KeyOf(i)))
        /\ (epc = "returned" /\ Did(i, "put") /\ ~Did(i, "delete")) =>
               /\ Raised(i, "delete")
               /\ \E f \in 1..Len(failed) : failed[f].file = KeyOf(i)

\* one file written and deleted, another written and its delete raised
C2_Witness ==
    /\ epc = "returned"
    /\ \E i, j \in 1..Len(records) :
           /\ Did(i, "put") /\ Did(i, "delete")
           /\ Did(j, "put") /\ Raised(j, "delete")

\* C3: an exception raised while loading, enriching, writing or deleting a file is
\* in the failed list as {file: key, error: message}, it does not end the invocation,
\* and when the invocation returns every later record has its own outcome.
C3_FailureRecordedBatchGoesOn ==
    \A i \in 1..Len(hist) : \A j \in 1..Len(hist[i]) :
        (hist[i][j][1] \in TrySteps /\ hist[i][j][2] # "ok") =>
            /\ \E f \in 1..Len(failed) :
                   failed[f] = [file |-> KeyOf(i), error |-> hist[i][j][2]]
            /\ ridx > i
            /\ epc = "crashed" => ~records[ridx].s3
            /\ epc = "returned" => \A m \in (i + 1)..Len(records) : Settled(m)

\* a record whose delete raised is followed by a processed one
C3_Witness ==
    /\ epc = "returned"
    /\ \E i, m \in 1..Len(records) :
           /\ i < m
           /\ Raised(i, "delete")
           /\ hist[m][Len(hist[m])] = <<"delete", "ok">>
           /\ InSeq(KeyOf(m), processed)

\* the Posts of record i that the inner loop has been through
PostEvents(i) == Cardinality({ j \in 1..Len(hist[i]) : hist[i][j][1] = "post" })

\* C4: no error of the inference call or of the parsing of its answer leaves the
\* Posts loop: the Post gets the sentinel, and when the invocation returns every Post
\* of the file has been through the loop and the write was reached, the delete too
\* once the write succeeded (unless a later Post's text selection raised).
C4_ModelErrorIsSentinel ==
    \A i \in 1..Len(hist) :
        /\ ~Raised(i, "infer")
        /\ \A j \in 1..Len(hist[i]) :
               hist[i][j] = <<"post", "model_err">> =>
                   /\ Len(records) = 1 =>
                          /\ tweets[j - 1].sentiment = Sentinel.label
                          /\ tweets[j - 1].sentiment_score = Sentinel.score
                   /\ epc = "returned" =>
                          \/ Raised(i, "enrich")
                          \/ /\ Len(records) = 1 => PostEvents(i) = Len(tweets)
                             /\ Attempted(i, "put")
                             /\ Did(i, "put") => Attempted(i, "delete")

\* the first Post's inference failed, the second was classified, the file was
\* written and the raw file deleted
C4_Witness ==
    /\ epc = "returned"
    /\ Len(hist) = 1
    /\ Len(hist[1]) >= 5
    /\ hist[1][2] = <<"post", "model_err">>
    /\ hist[1][3] = <<"post", "inferred">>
    /\ Did(1, "put")
    /\ Did(1, "delete")

\* C5: every Post of every object in the destination bucket has a non-null sentiment
\* and a non-null sentiment_score.
C5_SentimentNeverNull ==
    \A k \in DOMAIN dst : \A p \in Posts(dst[k]) :
        /\ p.sentiment.t \notin {"null", "absent"}
        /\ p.sentiment_score.t \notin {"null", "absent"}

\* the pattern tweets/{ticker_file}/date={date}/data.json
MatchesPattern(key) ==
    /\ Len(Split(key, "/")) = 4
    /\ Split(key, "/")[1] = <<"tweets">>
    /\ Len(Split(key, "/")[2]) >= 1
    /\ Len(Split(key, "/")[3]) >= 3
    /\ SubSeq(Split(key, "/")[3], 1, 2) = <<"date", "=">>
    /\ Split(key, "/")[4] = <<"data", ".", "json">>

\* C6: a record whose object the handler went on to load has a key of the pattern
\* tweets/{ticker_file}/date={date}/data.json.
C6_AcceptedOnlyIfPattern ==
    \A i \in 1..Len(hist) :
        (Attempted(i, "get") \/ Attempted(i, "loads")) => MatchesPattern(KeyOf(i))

\* enriched holds the Posts of raw in the same order, each with the two sentiment
\* fields added and nothing else changed
SameButSentiment(raw, enriched) ==
    /\ Len(enriched) = Len(raw)
    /\ \A n \in 1..Len(raw) :
           /\ [enriched[n] EXCEPT !.sentiment = raw[n].sentiment,
                                  !.sentiment_score = raw[n].sentiment_score] = raw[n]
           /\ enriched[n].sentiment # Absent
           /\ enriched[n].sentiment_score # Absent

\* C9: the write of a record stores under the destination key exactly the Posts of
\* the raw file, in order, changed only by the added sentiment fields; the delete that
\* follows leaves no raw file and the Enriched File as it is, and the key is reported
\* processed; a record none of whose steps raised ends that way.
C9_RoundTrip ==
    [][/\ (epc = "put" /\ hist'[ridx] = Append(hist[ridx], <<"put", "ok">>)) =>
              /\ Exists(dst', DestKey(CurKey))
              /\ SameButSentiment(JsonLoads(src[CurKey]),
                                  JsonLoads(dst'[DestKey(CurKey)]))
       /\ (epc = "delete" /\ hist'[ridx] = Append(hist[ridx], <<"delete", "ok">>)) =>
              /\ ~Exists(src', CurKey)
              /\ dst' = dst
              /\ processed' = Append(processed, CurKey)
       /\ (epc = "enrich" /\ epc' \notin {"enrich", "record"}) => epc' = "put"
       /\ (epc # "returned" /\ epc' = "returned") =>
              \A i \in 1..Len(records) :
                  (Did(i, "get") /\ \A st \in TrySteps : ~Raised(i, st)) =>
                      /\ InSeq(KeyOf(i), processed)
                      /\ ~Exists(src, KeyOf(i))
                      /\ Exists(dst, DestKey(KeyOf(i)))
      ]_vars

\* a raw file of two Posts went through: its Enriched File is there, the raw file not
C9_Witness ==
    /\ epc = "returned"
    /\ processed = <<RawKey1>>
    /\ ~Exists(src, RawKey1)
    /\ Exists(dst, DestKey(RawKey1))
    /\ Len(JsonLoads(dst[DestKey(RawKey1)])) >= 2

TextFields == {"content", "text", "rawContent", "full_text"}

\* every candidate text field of the Post is missing, null, empty or whitespace only
AllBlank(tw) ==
    \A f \in TextFields :
        \/ tw[f].t \in {"absent", "null"}
        \/ tw[f].t = "str" /\ \A n \in 1..Len(tw[f].v) : tw[f].v[n] \in Whitespace

\* C10: a Post of the loaded file whose candidate text fields are all blank is never
\* sent to the inference service, and once the loop is past it it holds the sentinel.
C10_BlankPostIsSentinel ==
    Len(records) = 1 =>
        \A p \in 1..Len(tweets) :
            AllBlank(tweets[p]) =>
                /\ \A c \in 1..Len(calls) : calls[c].post # p
                /\ p < ti =>
                       /\ tweets[p].sentiment = Sentinel.label
                       /\ tweets[p].sentiment_score = Sentinel.score

\* the loop is past a blank Post, and another Post of the file was sent to the service
C10_Witness ==
    /\ Len(records) = 1
    /\ calls # <<>>
    /\ \E p \in 1..Len(tweets) : p < ti /\ AllBlank(tweets[p])

\* the candidate text fields in the order of preference
PreferenceOrder == <<"content", "text", "rawContent", "full_text">>

\* the field holds text: a string with a character that is no whitespace
HoldsText(v) == v.t = "str" /\ \E n \in 1..Len(v.v) : v.v[n] \notin Whitespace

\* the first candidate field of the Post that holds text
FirstText(tw) ==
    LET n == CHOOSE m \in 1..Len(PreferenceOrder) :
                 /\ HoldsText(tw[PreferenceOrder[m]])
                 /\ \A k \in 1..(m - 1) : ~HoldsText(tw[PreferenceOrder[k]])
    IN  tw[PreferenceOrder[n]].v

\* C11: a Post the loop is past was sent to the classifier with the text of its first
\* candidate field, in the order content, text, rawContent, full_text, that holds
\* text; it took the path without inference only if none of the four holds text.
C11_FirstTextFieldClassified ==
    Len(records) = 1 =>
        \A p \in 1..Len(tweets) :
            p < ti =>
                IF \E m \in 1..Len(PreferenceOrder) : HoldsText(tweets[p][PreferenceOrder[m]])
                THEN \E c \in 1..Len(calls) :
                         /\ calls[c].post = p
                         /\ calls[c].text = Truncate(Strip(FirstText(tweets[p])))
                ELSE \A c \in 1..Len(calls) : calls[c].post # p

\* the path segments of a key
Segments(key) == Split(key, "/")

\* the position of the last c in s, and of the first one
LastAt(s, c) == CHOOSE n \in 1..Len(s) : s[n] = c /\ \A k \in (n + 1)..Len(s) : s[k] # c
FirstAt(s, c) == CHOOSE n \in 1..Len(s) : s[n] = c /\ \A k \in 1..(n - 1) : s[k] # c

\* the second segment has an extension, the third one a value after `=`
HasExtAndDate(key) ==
    /\ Len(Segments(key)) >= 3
    /\ \E n \in 1..Len(Segments(key)[2]) : Segments(key)[2][n] = "."
    /\ \E n \in 1..Len(Segments(key)[3]) : Segments(key)[3][n] = "="

\* {ticker}-{date}.json: the second segment up to its last dot, the third segment
\* after its first `=`
ExpectedDest(key) ==
    LET seg2 == Segments(key)[2]
        seg3 == Segments(key)[3]
    IN  SubSeq(seg2, 1, LastAt(seg2, ".") - 1) \o <<"-">>
            \o SubSeq(seg3, FirstAt(seg3, "=") + 1, Len(seg3)) \o <<".", "json">>

\* C16: the write of an accepted record puts the Enriched File under {ticker}-{date}.json
\* and under no other key, ticker being the second segment without its extension and
\* date the value after `=` in the third; tweets/AAPL.json/date=2024-01-01/data.json
\* is written to AAPL-2024-01-01.json.
C16_DestinationKey ==
    [][(epc = "put" /\ hist'[ridx] = Append(hist[ridx], <<"put", "ok">>)) =>
           /\ HasExtAndDate(CurKey) =>
                  /\ DOMAIN dst' = DOMAIN dst \cup {ExpectedDest(CurKey)}
                  /\ dst'[ExpectedDest(CurKey)] = JsonDumps(tweets)
                  /\ \A k \in DOMAIN dst : k # ExpectedDest(CurKey) => dst'[k] = dst[k]
           /\ CurKey = RawKey1 =>
                  Exists(dst', <<"AAPL", "-", "2024-01-01", ".", "json">>)
      ]_vars

\* the file of the URL-encoded AAPL notification was written to AAPL-2024-01-01.json
C16_Witness ==
    /\ \E i \in 1..Len(hist) :
           /\ records[i].s3
           /\ records[i].key = EventKey1
           /\ Did(i, "put")
    /\ Exists(dst, <<"AAPL", "-", "2024-01-01", ".", "json">>)

\* the event is a step that raised
IsRaise(e) == e[1] \in TrySteps \cup {"receive", "infer"} /\ e[2] # "ok"

\* the events of one record are in the order of the state machine: a skip stands
\* alone; Posts are enriched after the load; the write comes after the load and the
\* Posts only; the delete comes right after a write that succeeded; nothing comes
\* after a step that raised
InOrder(h) ==
    \A j \in 1..Len(h) :
        /\ h[j][1] = "skip" => Len(h) = 1
        /\ h[j][1] = "post" =>
               /\ j > 1
               /\ h[1] = <<"get", "ok">>
               /\ \A k \in 2..(j - 1) : h[k][1] = "post"
        /\ h[j][1] = "put" =>
               /\ j > 1
               /\ h[1] = <<"get", "ok">>
               /\ \A k \in 2..(j - 1) : h[k][1] = "post"
        /\ h[j][1] = "delete" => j > 1 /\ h[j - 1] = <<"put", "ok">>
        /\ h[j] = <<"get", "ok">> => j = 1
        /\ IsRaise(h[j]) => j = Len(h)

\* C17: the steps of every record follow Received, KeyValidated, Loaded, Enriched,
\* Written, Deleted, Processed: the write is reached only when every Post of the
\* loaded file has its sentiment, the delete only after the write succeeded, the key
\* is appended to processed only by the step whose delete succeeded, and a record
\* takes no step after one that raised.
C17_StepOrder ==
    [][/\ \A i \in 1..Len(hist') : InOrder(hist'[i])
       /\ (epc # "put" /\ epc' = "put") =>
              /\ ti' = Len(tweets') + 1
              /\ \A p \in 1..Len(tweets') :
                     /\ tweets'[p].sentiment # Absent
                     /\ tweets'[p].sentiment_score # Absent
              /\ Has(hist'[ridx], <<"get", "ok">>)
       /\ (epc # "delete" /\ epc' = "delete") =>
              hist'[ridx][Len(hist'[ridx])] = <<"put", "ok">>
       /\ (processed' # processed /\ epc # "idle") =>
              /\ processed' = Append(processed, CurKey)
              /\ hist'[ridx][Len(hist'[ridx])] = <<"delete", "ok">>
      ]_vars

\* one record went from the load over two Posts to the write, the delete and the
\* processed list, another one stopped at the write that raised
C17_Witness ==
    /\ epc = "returned"
    /\ \E i, m \in 1..Len(hist) :
           /\ Len(hist[i]) = 5
           /\ hist[i][1] = <<"get", "ok">>
           /\ hist[i][4] = <<"put", "ok">>
           /\ hist[i][5] = <<"delete", "ok">>
           /\ InSeq(KeyOf(i), processed)
           /\ hist[m] # <<>>
           /\ hist[m][Len(hist[m])] = <<"put", "ClientError">>

\* the last event of record i
LastEvent(i) == hist[i][Len(hist[i])]

\* the keys of the records among the first n whose delete succeeded, in order
RECURSIVE ProcessedUpTo(_)
ProcessedUpTo(n) ==
    IF n = 0 THEN <<>>
    ELSE ProcessedUpTo(n - 1)
             \o (IF hist[n] # <<>> /\ LastEvent(n) = <<"delete", "ok">>
                 THEN <<KeyOf(n)>> ELSE <<>>)

\* the failure entries of the records among the first n that have a step that raised
RECURSIVE FailedUpTo(_)
FailedUpTo(n) ==
    IF n = 0 THEN <<>>
    ELSE FailedUpTo(n - 1)
             \o (IF hist[n] # <<>> /\ IsRaise(LastEvent(n))
                 THEN <<[file |-> KeyOf(n), error |-> LastEvent(n)[2]]>> ELSE <<>>)

\* the records whose key passes the validation
AcceptedRecords == { i \in 1..Len(records) : records[i].s3 /\ Accepted(KeyOf(i)) }

\* C18: when the invocation returns, a record whose key was rejected took no step but
\* the skip and its key is in neither list; an accepted record ended with its delete
\* done or with a step that raised, never both; processed holds one entry for each
\* of the former and failed one entry for each of the latter, in the order of the
\* records, so that their lengths add up to the number of accepted records.
C18_OneOutcomePerRecord ==
    epc = "returned" =>
        /\ \A i \in 1..Len(records) :
               IF i \in AcceptedRecords
               THEN /\ hist[i] # <<>>
                    /\ LastEvent(i) = <<"delete", "ok">> \/ IsRaise(LastEvent(i))
               ELSE /\ Len(hist[i]) = 1
                    /\ hist[i][1][1] = "skip"
                    /\ ~InSeq(KeyOf(i), processed)
                    /\ \A f \in 1..Len(failed) : failed[f].file # KeyOf(i)
        /\ processed = ProcessedUpTo(Len(records))
        /\ failed = FailedUpTo(Len(records))
        /\ Len(processed) + Len(failed) = Cardinality(AcceptedRecords)

\* the invocation returned with a record skipped and another whose delete raised
\* after its write: that one is in the failed list only
C18_Witness ==
    /\ epc = "returned"
    /\ \E i, m \in 1..Len(records) :
           /\ hist[i] = <<<<"skip", "structure">>>>
           /\ Did(m, "put")
           /\ Raised(m, "delete")
    /\ Len(failed) = 1
    /\ processed = <<>>

(***************************************************************************)
(* Properties of two invocations on the same notification.                 *)
(***************************************************************************)
\* the records of the other invocation that carry key
ParkedAt(key) ==
    { j \in 1..Len(parked.records) :
          parked.records[j].s3 /\ UnquotePlus(parked.records[j].key) = key }

\* C12: a record whose raw file is no longer there (get_object answers NoSuchKey) is
\* in the failed list with that error, nothing is written or deleted for it, the
\* invocation does not crash, and when it returns every later record has its outcome.
C12_RedeliveryFailsGracefully ==
    \A i \in 1..Len(hist) :
        Has(hist[i], <<"get", "NoSuchKey">>) =>
            /\ \E f \in 1..Len(failed) :
                   failed[f] = [file |-> KeyOf(i), error |-> "NoSuchKey"]
            /\ ~Attempted(i, "put")
            /\ ~Attempted(i, "delete")
            /\ epc # "crashed"
            /\ ridx > i
            /\ epc = "returned" => \A m \in (i + 1)..Len(records) : Settled(m)

\* an invocation enriched and deleted the AAPL file and returned; the invocation on
\* the second delivery returned with the AAPL key failed and the MSFT file processed
C12_Witness ==
    /\ parked.epc = "returned"
    /\ InSeq(RawKey1, parked.processed)
    /\ epc = "returned"
    /\ Len(records) = 2
    /\ failed = <<[file |-> RawKey1, error |-> "NoSuchKey"]>>
    /\ processed = <<RawKey2>>

\* C13 as claimed: of two invocations that got a notification for the same key, at
\* most one loaded the file, wrote the Enriched File and reported the key processed.
C13_ConsumedOnce ==
    \A i \in 1..Len(hist) : \A j \in ParkedAt(KeyOf(i)) :
        ~ /\ Has(hist[i], <<"get", "ok">>) /\ Has(hist[i], <<"put", "ok">>)
          /\ InSeq(KeyOf(i), processed)
          /\ Has(parked.hist[j], <<"get", "ok">>) /\ Has(parked.hist[j], <<"put", "ok">>)
          /\ InSeq(KeyOf(i), parked.processed)

\* C13 as amended: an invocation loads a raw file only while no invocation has
\* deleted it: once one invocation has deleted the file, a later load of that key
\* fails, so two invocations consume the same file only when the second loaded it
\* before the first deleted it.
C13_NoLoadAfterDelete ==
    [][(/\ parked' = parked
        /\ epc = "record"
        /\ ridx <= Len(hist)
        /\ hist'[ridx] = Append(hist[ridx], <<"get", "ok">>)) =>
           /\ \A j \in ParkedAt(CurKey) : ~Has(parked.hist[j], <<"delete", "ok">>)
           /\ \A i \in 1..(ridx - 1) : KeyOf(i) = CurKey => ~Has(hist[i], <<"delete", "ok">>)
      ]_vars

\* one invocation has deleted the AAPL file, the other one then failed to load it;
\* and the MSFT file was loaded by it
C13_Witness ==
    /\ \E j \in ParkedAt(RawKey1) : Has(parked.hist[j], <<"delete", "ok">>)
    /\ Len(hist) = 2
    /\ Has(hist[1], <<"get", "NoSuchKey">>)
    /\ Has(hist[2], <<"get", "ok">>)

(***************************************************************************)
(* Properties of _pick_best_label.                                         *)
(***************************************************************************)
\* the candidate list of a response: its elements, or those of its first element
\* when the response is nested one level
Candidates(r) ==
    IF r.kind # "list" \/ r.items = <<>> THEN <<>>
    ELSE IF r.items[1].kind = "list" THEN r.items[1].items
    ELSE r.items

\* the elements that are candidates: dicts with a label
IsCandidate(c) == c.kind = "dict" /\ c.label.t # "absent"

\* C14: when the response holds candidates and each has a numeric score, the pair
\* returned is the label and score of a candidate no other candidate outscores; when
\* the response is no list, is empty or holds no candidate, the pair returned is
\* ("unknown", 0.0).
C14_MaxScoreOrSentinel ==
    Len(pick) = 2 =>
        LET c == Candidates(pick[1])
            usable == { n \in 1..Len(c) : IsCandidate(c[n]) }
            out == pick[2]
        IN  /\ (usable # {} /\ \A n \in usable : c[n].score.t = "num") =>
                   /\ ~out.raised
                   /\ \E n \in usable :
                          /\ out.label = c[n].label
                          /\ out.score = c[n].score
                          /\ \A m \in usable : c[m].score.v[1] <= c[n].score.v[1]
            /\ usable = {} =>
                   /\ ~out.raised
                   /\ out.label = Sentinel.label
                   /\ out.score = Sentinel.score

\* [{pos, 0.3}, {neg, 0.9}] gave neg, 0.9
C14_Witness ==
    /\ Len(pick) = 2
    /\ pick[1] = List(<<Dict(Str(<<"pos">>), Num(3)), Dict(Str(<<"neg">>), Num(9))>>)
    /\ pick[2] = [raised |-> FALSE, label |-> Str(<<"neg">>), score |-> Num(9)]

(***************************************************************************)
(* Properties of the two lambdas together.                                 *)
(***************************************************************************)
\* no invocation of either lambda is running
Quiescent == hpc \in {"idle", "done", "crashed"} /\ epc \in {"idle", "returned", "crashed"}

\* the Post as the raw file held it
WithoutSentiment(p) == [p EXCEPT !.sentiment = Absent, !.sentiment_score = Absent]

\* C19: when no invocation is running, every Post that was ever saved in a raw file
\* is in that raw file or in the Enriched File of its ticker and date.
C19_NoPostLost ==
    Quiescent =>
        \A k \in DOMAIN everRaw : \A p \in everRaw[k] :
            \/ Exists(src, k) /\ p \in Posts(src[k])
            \/ /\ Exists(dst, DestKey(k))
               /\ \E q \in Posts(dst[DestKey(k)]) : WithoutSentiment(q) = p

====
